---- MODULE Spec2Model ----
(***************************************************************************)
(* solardatatools/solar_noon.py: the two solar noon estimators,            *)
(* energy_com and avg_sunrise_sunset, applied to a T x D power matrix.     *)
(*                                                                         *)
(* Floating point numbers are modelled as exact rationals [num, den] with  *)
(* den > 0, plus the value NaN (den = 0).  NaN propagates through + * /    *)
(* and makes < false and != true, as IEEE-754 does.  Rounding is not       *)
(* modelled.  Arrays are functions over 0-based index ranges; the shape of *)
(* the matrix is kept next to it because a matrix with no rows has no      *)
(* entries to read the number of columns from.                             *)
(***************************************************************************)
EXTENDS Integers, FiniteSets, Sequences, TLC

VARIABLES data_in, shape, threshold, fn, outcome, result, locals

vars == <<data_in, shape, threshold, fn, outcome, result, locals>>

\* ---------------------------------------------------------------- bounds
MaxT == 5
MaxD == 2
MaxCells == 6
MaxVal == 2

\* ------------------------------------------------------- float arithmetic
RECURSIVE GCD(_, _)
GCD(a, b) == IF b = 0 THEN a ELSE GCD(b, a % b)

Abs(x) == IF x < 0 THEN -x ELSE x

NaN == [num |-> 0, den |-> 0]

IsNaN(x) == x.den = 0

Rat(n, d) ==
    LET s == IF d < 0 THEN -1 ELSE 1
        g == GCD(Abs(n), Abs(d))
    IN  IF d = 0 THEN NaN ELSE [num |-> (s * n) \div g, den |-> (s * d) \div g]

RAdd(a, b) ==
    IF IsNaN(a) \/ IsNaN(b) THEN NaN
    ELSE Rat(a.num * b.den + b.num * a.den, a.den * b.den)

RMul(a, b) ==
    IF IsNaN(a) \/ IsNaN(b) THEN NaN ELSE Rat(a.num * b.num, a.den * b.den)

\* a / b; 0/0 is NaN.  The callers never divide a non-zero value by zero.
RDiv(a, b) ==
    IF IsNaN(a) \/ IsNaN(b) THEN NaN ELSE Rat(a.num * b.den, a.den * b.num)

\* a < b : false when either side is NaN
RLt(a, b) == ~IsNaN(a) /\ ~IsNaN(b) /\ a.num * b.den < b.num * a.den

\* a != b : true when either side is NaN
RNe(a, b) == IsNaN(a) \/ IsNaN(b) \/ a.num * b.den # b.num * a.den

Zero == Rat(0, 1)

\* ------------------------------------------------------------ numpy pieces
Rows(sh) == 0 .. (sh[1] - 1)
Cols(sh) == 0 .. (sh[2] - 1)

\* np.linspace with endpoint=False: the step is (stop - start) / num
np_linspace_no_endpoint(start, stop, num) ==
    [i \in 0 .. (num - 1) |-> Rat(start * num + i * (stop - start), num)]

\* a time axis that starts one step late
np_linspace_overshoot(start, stop, num) ==
    [i \in 0 .. (num - 1) |->
        IF num = 1 THEN Rat(stop, 1)
        ELSE Rat(start * (num - 1) + (i + 1) * (stop - start), num - 1)]

\* np.linspace(start, stop, num)
np_linspace(start, stop, num) ==
    [i \in 0 .. (num - 1) |->
        IF num = 1 THEN Rat(start, 1)
        ELSE Rat(start * (num - 1) + i * (stop - start), num - 1)]

RECURSIVE DotCol(_, _, _, _)
DotCol(v, m, d, n) ==
    IF n = 0 THEN Zero
    ELSE RAdd(DotCol(v, m, d, n - 1), RMul(v[n - 1], m[n - 1][d]))

\* np.dot(v, m) for a vector v of length T and a T x D matrix m
np_dot(v, m, sh) == [d \in Cols(sh) |-> DotCol(v, m, d, sh[1])]

RECURSIVE SumCol(_, _, _)
SumCol(m, d, n) ==
    IF n = 0 THEN Zero ELSE RAdd(SumCol(m, d, n - 1), m[n - 1][d])

RECURSIVE SumAll(_, _, _)
SumAll(m, sh, k) ==
    IF k = 0 THEN Zero ELSE RAdd(SumAll(m, sh, k - 1), SumCol(m, k - 1, sh[1]))

\* np.sum(m) without the axis: every day gets the total of the matrix
np_sum_all(m, sh) == [d \in Cols(sh) |-> SumAll(m, sh, sh[2])]

\* np.sum(m, axis=0)
np_sum(m, sh) == [d \in Cols(sh) |-> SumCol(m, d, sh[1])]

\* com = np.zeros_like(div1)
zeros_like(a) == [d \in DOMAIN a |-> Zero]

\* com = np.empty_like(div1); com[:] = np.nan
nan_like(a) == [d \in DOMAIN a |-> NaN]

\* ------------------------------------------------------------- energy_com
\* energy_com over np.nan_to_num(data): missing samples weigh nothing
energy_com_nan_to_num(m, sh) ==
    LET z    == [t \in Rows(sh) |->
                    [d \in Cols(sh) |-> IF IsNaN(m[t][d]) THEN Zero ELSE m[t][d]]]
        div1 == np_dot(np_linspace(0, 24, sh[1]), z, sh)
        div2 == np_sum(z, sh)
        msk  == [d \in Cols(sh) |-> RNe(div2[d], Zero)]
    IN  [d \in Cols(sh) |-> IF msk[d] THEN RDiv(div1[d], div2[d]) ELSE NaN]

\* energy_com(data): the returned array com
energy_com(m, sh) ==
    LET div1 == np_dot(np_linspace(0, 24, sh[1]), m, sh)
        div2 == np_sum(m, sh)
        com  == nan_like(div1)
        msk  == [d \in Cols(sh) |-> RNe(div2[d], Zero)]
    IN  [d \in Cols(sh) |-> IF msk[d] THEN RDiv(div1[d], div2[d]) ELSE com[d]]

\* ------------------------------------------------------ avg_sunrise_sunset
\* data = data_in: the working array is the caller's array
SharedView(a) == [shared |-> TRUE, arr |-> a]

\* np.copy(data_in).astype(np.float): a new buffer holding the same values
\* (the modelled values convert to float exactly).  shared says whether
\* writes to the returned array reach the caller's array.
PrivateCopy(a) == [shared |-> FALSE, arr |-> a]

\* the values of data[~np.isnan(data)]
FiniteVals(m, sh) ==
    {m[t][d] : t \in Rows(sh), d \in Cols(sh)} \ {NaN}

\* the values of data
AllVals(m, sh) == {m[t][d] : t \in Rows(sh), d \in Cols(sh)}

\* np.max over the values of an array: ValueError on a zero-size array,
\* NaN when a NaN is present
np_max(vals) ==
    IF vals = {} THEN [raised |-> TRUE, value |-> NaN]
    ELSE IF NaN \in vals THEN [raised |-> FALSE, value |-> NaN]
    ELSE [raised |-> FALSE,
          value |-> CHOOSE x \in vals : \A y \in vals : ~RLt(x, y)]

\* night_msk = data > threshold * <maximum>
night_msk_gt(m, sh, thr, mx) ==
    [t \in Rows(sh) |-> [d \in Cols(sh) |-> RLt(RMul(thr, mx), m[t][d])]]

\* night_msk = data < threshold * <maximum>
night_msk(m, sh, thr, mx) ==
    [t \in Rows(sh) |-> [d \in Cols(sh) |-> RLt(m[t][d], RMul(thr, mx))]]

\* data[night_msk] = np.nan
MaskNight(m, sh, nm) ==
    [t \in Rows(sh) |-> [d \in Cols(sh) |-> IF nm[t][d] THEN NaN ELSE m[t][d]]]

\* good_vals = (~np.isnan(data)).astype(int)
good_vals(m, sh) ==
    [t \in Rows(sh) |-> [d \in Cols(sh) |-> IF IsNaN(m[t][d]) THEN 0 ELSE 1]]

\* np.flip(a, 0)
np_flip(a, sh) == [t \in Rows(sh) |-> a[sh[1] - 1 - t]]

\* np.argmax(a, axis=0): per column, the first row holding the column maximum
np_argmax(a, sh) ==
    [d \in Cols(sh) |->
        CHOOSE t \in Rows(sh) :
            /\ \A u \in Rows(sh) : a[u][d] <= a[t][d]
            /\ \A u \in Rows(sh) : u < t => a[u][d] < a[t][d]]

\* the sunset indices left as computed
NoClamp(idxs, sh) == idxs

\* sunset_idxs[sunset_idxs == data.shape[0]] = data.shape[0] - 1
ClampSunset(idxs, sh) ==
    [d \in DOMAIN idxs |-> IF idxs[d] = sh[1] THEN sh[1] - 1 ELSE idxs[d]]

\* hour_of_day[idxs] raises IndexError when an index is out of bounds
InBounds(idxs, sh) == \A d \in DOMAIN idxs : idxs[d] \in Rows(sh)

NoLocals == [data |-> <<>>, sunrise_idxs |-> <<>>, sunset_idxs |-> <<>>]

\* lines 40-48: the working copy after the night mask is written to it, or
\* the ValueError that np.max raises (a second time, inside the handler) on
\* a zero-size array
MaskedCopy(m_in, sh, thr) ==
    LET cp     == PrivateCopy(m_in)
        first  == np_max(FiniteVals(cp.arr, sh))
        second == np_max(AllVals(cp.arr, sh))
    IN  IF first.raised /\ second.raised
        THEN [raised |-> TRUE, shared |-> cp.shared, data |-> <<>>]
        ELSE
        LET mx == IF first.raised THEN second.value ELSE first.value
        IN  [raised |-> FALSE, shared |-> cp.shared,
             data |-> MaskNight(cp.arr, sh, night_msk(cp.arr, sh, thr, mx))]

\* lines 49-52: sunrise_idxs and sunset_idxs of the masked working copy
SunIdxs(masked, sh) ==
    LET good == good_vals(masked, sh)
        back == np_argmax(np_flip(good, sh), sh)
    IN  [sunrise_idxs |-> np_argmax(good, sh),
         sunset_idxs |-> ClampSunset([d \in Cols(sh) |-> sh[1] - back[d]], sh)]

\* avg_sunrise_sunset(data_in, threshold): outcome, returned array, the
\* caller's array after the call, and the locals the function computed
avg_sunrise_sunset(m_in, sh, thr) ==
    LET w == MaskedCopy(m_in, sh, thr)
    IN  IF w.raised
        THEN [outcome |-> "ValueError", value |-> <<>>, caller |-> m_in,
              loc |-> NoLocals]
        ELSE
        LET ix    == SunIdxs(w.data, sh)
            hour_of_day == np_linspace(0, 24, sh[1])
            loc   == [data |-> w.data, sunrise_idxs |-> ix.sunrise_idxs,
                      sunset_idxs |-> ix.sunset_idxs]
            after == IF w.shared THEN w.data ELSE m_in
        IN  IF ~(InBounds(ix.sunrise_idxs, sh) /\ InBounds(ix.sunset_idxs, sh))
            THEN [outcome |-> "IndexError", value |-> <<>>, caller |-> after,
                  loc |-> loc]
            ELSE [outcome |-> "returned",
                  value |-> [d \in Cols(sh) |->
                      RDiv(RAdd(hour_of_day[ix.sunrise_idxs[d]],
                                hour_of_day[ix.sunset_idxs[d]]),
                           Rat(2, 1))],
                  caller |-> after, loc |-> loc]

\* ----------------------------------------------------------- state machine
PowerVals == {NaN} \cup {Rat(v, 1) : v \in 0 .. MaxVal}

Shapes == {sh \in (0 .. MaxT) \X (0 .. MaxD) : sh[1] * sh[2] <= MaxCells}

\* threshold=0.005
DefaultThreshold == Rat(5, 1000)

Thresholds == {Zero, DefaultThreshold, Rat(3, 4), Rat(3, 2)}

Init ==
    /\ shape \in Shapes
    /\ data_in \in [Rows(shape) -> [Cols(shape) -> PowerVals]]
    /\ threshold = DefaultThreshold
    /\ fn = "none"
    /\ outcome = "none"
    /\ result = <<>>
    /\ locals = NoLocals

\* a caller runs energy_com(data_in)
CallEnergyCom ==
    /\ fn = "none"
    /\ fn' = "energy_com"
    /\ outcome' = "returned"
    /\ result' = energy_com(data_in, shape)
    /\ UNCHANGED <<data_in, shape, threshold, locals>>

\* a caller runs avg_sunrise_sunset(data_in, thr)
CallAvgSunriseSunset ==
    /\ fn = "none"
    /\ \E thr \in Thresholds :
        LET r == avg_sunrise_sunset(data_in, shape, thr)
        IN  /\ threshold' = thr
            /\ fn' = "avg_sunrise_sunset"
            /\ outcome' = r.outcome
            /\ result' = r.value
            /\ data_in' = r.caller
            /\ locals' = r.loc
    /\ UNCHANGED shape

Next == CallEnergyCom \/ CallAvgSunriseSunset

Spec == Init /\ [][Next]_vars

\* ------------------------------------------------- vocabulary of the claims
T == shape[1]
D == shape[2]

Returned(f) == fn = f /\ outcome = "returned"

Failed == outcome \in {"ValueError", "IndexError"}

\* hour(i) = i * 24 / (T - 1), for T >= 2
Hour(i) == [num |-> 24 * i, den |-> T - 1]

\* x = y as numbers, for two non-NaN values
SameNumber(x, y) == ~IsNaN(x) /\ ~IsNaN(y) /\ x.num * y.den = y.num * x.den

\* 0 <= x <= 24
InDay(x) == ~IsNaN(x) /\ 0 <= x.num /\ x.num <= 24 * x.den

ColHasNaN(d) == \E t \in Rows(shape) : IsNaN(data_in[t][d])

NaNFree == \A d \in Cols(shape) : ~ColHasNaN(d)

\* the entries of the matrix are whole numbers: column total and first moment
RECURSIVE ColTotal(_, _)
ColTotal(d, n) == IF n = 0 THEN 0 ELSE ColTotal(d, n - 1) + data_in[n - 1][d].num

RECURSIVE ColMoment(_, _)
ColMoment(d, n) ==
    IF n = 0 THEN 0 ELSE ColMoment(d, n - 1) + (n - 1) * data_in[n - 1][d].num

\* x is the power-weighted average hour of column d
IsWeightedHour(x, d) ==
    /\ ~IsNaN(x)
    /\ x.num * (T - 1) * ColTotal(d, T) = 24 * ColMoment(d, T) * x.den

\* the largest finite entry of the whole matrix, when there is one
Finite == {data_in[t][d] : t \in Rows(shape), d \in Cols(shape)} \ {NaN}

GlobalMax == CHOOSE x \in Finite : \A y \in Finite : y.num * x.den <= x.num * y.den

\* sample t of day d is daylight under threshold thr
IsDaylight(t, d, thr) ==
    /\ ~IsNaN(data_in[t][d])
    /\ ~(data_in[t][d].num * thr.den * GlobalMax.den
            < thr.num * GlobalMax.num * data_in[t][d].den)

Daylight(d) == {t \in Rows(shape) : IsDaylight(t, d, threshold)}

First(S) == CHOOSE t \in S : \A u \in S : t <= u
Last(S) == CHOOSE t \in S : \A u \in S : u <= t

\* ------------------------------------------------------------------ claims

\* C1 (as stated): for every day with at least one daylight sample,
\* avg_sunrise_sunset returns the midpoint of the hour of the first and the
\* hour of the last daylight sample.
C1_MidpointOfFirstAndLast ==
    (Returned("avg_sunrise_sunset") /\ T >= 2) =>
        \A d \in Cols(shape) :
            Daylight(d) # {} =>
                SameNumber(result[d],
                    [num |-> 24 * (First(Daylight(d)) + Last(Daylight(d))),
                     den |-> 2 * (T - 1)])

\* C2 (as stated): with a zero-length time axis both estimators end in an
\* error and return nothing.
C2_BothFailFast == (fn # "none" /\ T = 0) => Failed

\* C2 (amended): with a zero-length time axis avg_sunrise_sunset ends in a
\* ValueError and returns nothing, while energy_com raises nothing and
\* returns one NaN per day.
C2_ZeroRows ==
    (fn # "none" /\ T = 0) =>
        /\ fn = "avg_sunrise_sunset" => (outcome = "ValueError" /\ result = <<>>)
        /\ fn = "energy_com" =>
            /\ outcome = "returned"
            /\ DOMAIN result = Cols(shape)
            /\ \A d \in Cols(shape) : IsNaN(result[d])

C2_Witness ==
    /\ T = 0 /\ D >= 1
    /\ Returned("energy_com")
    /\ \A d \in Cols(shape) : IsNaN(result[d])

\* the matrix made of column d alone, and the matrix without column e
OnlyColumn(d) == [t \in Rows(shape) |-> [c \in {0} |-> data_in[t][d]]]

WithoutColumn(e) ==
    [t \in Rows(shape) |->
        [c \in 0 .. (D - 2) |-> data_in[t][IF c < e THEN c ELSE c + 1]]]

\* C3: in energy_com a day of total energy zero gets NaN, and every day's
\* result is the one the day gets alone and the one it gets when any other
\* day is removed from the matrix.
C3_ZeroEnergyDayIsLocal ==
    Returned("energy_com") =>
        \A d \in Cols(shape) :
            /\ (~ColHasNaN(d) /\ ColTotal(d, T) = 0) => IsNaN(result[d])
            /\ result[d] = energy_com(OnlyColumn(d), <<T, 1>>)[0]
            /\ \A e \in Cols(shape) \ {d} :
                result[d] = energy_com(WithoutColumn(e), <<T, D - 1>>)
                                [IF d < e THEN d ELSE d - 1]

C3_Witness ==
    /\ Returned("energy_com") /\ T >= 2 /\ D = 2
    /\ \A t \in Rows(shape) : data_in[t][0] = Zero
    /\ IsNaN(result[0])
    /\ ~IsNaN(result[1])

\* C4: with at least two rows, every non-NaN entry either estimator returns
\* lies in [0, 24].
C4_ResultInDay ==
    (outcome = "returned" /\ T >= 2) =>
        \A d \in Cols(shape) : IsNaN(result[d]) \/ InDay(result[d])

C4_Witness ==
    /\ Returned("energy_com") /\ T >= 2
    /\ \E d \in Cols(shape) : result[d] = Rat(24, 1)

\* C5: no step changes the caller's matrix; the night mask is written to the
\* private copy only.
C5_InputUnchanged == [][data_in' = data_in]_vars

C5_Witness ==
    /\ Returned("avg_sunrise_sunset")
    /\ locals.data # data_in

\* C6: with at least one row (and one day) avg_sunrise_sunset returns, every
\* returned entry is a number, and a day without daylight has sunrise index
\* 0, sunset index T-1 and the midpoint of the first and last hour.
C6_AlwaysDefined ==
    /\ (fn = "avg_sunrise_sunset" /\ T >= 1 /\ D >= 1) => outcome = "returned"
    /\ Returned("avg_sunrise_sunset") =>
        \A d \in Cols(shape) :
            /\ ~IsNaN(result[d])
            /\ Daylight(d) = {} =>
                /\ locals.sunrise_idxs[d] = 0
                /\ locals.sunset_idxs[d] = T - 1
                /\ result[d] = IF T = 1 THEN Zero ELSE Rat(12, 1)

C6_Witness ==
    /\ Returned("avg_sunrise_sunset") /\ T >= 2 /\ D = 2
    /\ Daylight(0) = {} /\ ~ColHasNaN(0)
    /\ Daylight(1) # {}
    /\ result[0] = Rat(12, 1)

\* day d has all its energy at sample i
SpikeAt(d, i) ==
    /\ data_in[i][d].num > 0
    /\ \A t \in Rows(shape) \ {i} : data_in[t][d] = Zero

\* C7: for a NaN-free matrix with at least two rows, energy_com returns for
\* every day of non-zero total the power-weighted average hour, and hour(i)
\* for a day whose energy is all at sample i.
C7_WeightedAverageHour ==
    (Returned("energy_com") /\ T >= 2 /\ NaNFree) =>
        \A d \in Cols(shape) :
            ColTotal(d, T) # 0 =>
                /\ IsWeightedHour(result[d], d)
                /\ \A i \in Rows(shape) :
                    SpikeAt(d, i) => SameNumber(result[d], Hour(i))

C7_Witness ==
    /\ Returned("energy_com") /\ T >= 3 /\ NaNFree
    /\ \E d \in Cols(shape) : ColTotal(d, T) # 0 /\ result[d].den > 1
    /\ \E d \in Cols(shape) : SpikeAt(d, 1)

\* day d is symmetric about the middle of the time axis
Symmetric(d) ==
    /\ ~ColHasNaN(d)
    /\ \A t \in Rows(shape) : data_in[t][d] = data_in[T - 1 - t][d]

\* C8 (as stated): a symmetric day of non-zero total gets 12 from energy_com.
C8_SymmetricDayIsNoon ==
    Returned("energy_com") =>
        \A d \in Cols(shape) :
            (Symmetric(d) /\ ColTotal(d, T) # 0) => result[d] = Rat(12, 1)

\* C8 (amended): with at least two rows, a symmetric day of non-zero total
\* gets 12 from energy_com.
C8_SymmetricDayIsNoonTwoRows ==
    (Returned("energy_com") /\ T >= 2) =>
        \A d \in Cols(shape) :
            (Symmetric(d) /\ ColTotal(d, T) # 0) => result[d] = Rat(12, 1)

C8_Witness ==
    /\ Returned("energy_com") /\ T = 5 /\ D = 1
    /\ \A t \in Rows(shape) :
        data_in[t][0] = Rat(IF t = 2 THEN 2 ELSE IF t \in {1, 3} THEN 1 ELSE 0, 1)
    /\ result[0] = Rat(12, 1)

\* the working copy avg_sunrise_sunset ends with under threshold thr
NightMasked(thr) == MaskedCopy(data_in, shape, thr).data

IsNight(m, t, d) == IsNaN(m[t][d])

\* C9: a sample that is night under a threshold is night under every larger
\* threshold (thresholds >= 0, non-negative matrix).
C9_NightGrowsWithThreshold ==
    Returned("avg_sunrise_sunset") =>
        \A other \in Thresholds :
            LET masked == NightMasked(other)
            IN  \A t \in Rows(shape), d \in Cols(shape) :
                    /\ (~RLt(other, threshold) /\ IsNight(locals.data, t, d))
                            => IsNight(masked, t, d)
                    /\ (~RLt(threshold, other) /\ IsNight(masked, t, d))
                            => IsNight(locals.data, t, d)

C9_Witness ==
    /\ Returned("avg_sunrise_sunset")
    /\ threshold = DefaultThreshold
    /\ \E t \in Rows(shape), d \in Cols(shape) :
        /\ ~IsNight(locals.data, t, d)
        /\ IsNight(NightMasked(Rat(3, 4)), t, d)
    /\ \E t \in Rows(shape), d \in Cols(shape) :
        ~IsNight(NightMasked(Rat(3, 4)), t, d)

\* C10: in energy_com a day with a NaN sample gets NaN; a day without NaN
\* samples gets NaN when its total is zero and the power-weighted average
\* hour otherwise.
C10_NaNPoisonsTheDay ==
    Returned("energy_com") =>
        \A d \in Cols(shape) :
            /\ ColHasNaN(d) => IsNaN(result[d])
            /\ (~ColHasNaN(d) /\ ColTotal(d, T) = 0) => IsNaN(result[d])
            /\ (~ColHasNaN(d) /\ ColTotal(d, T) # 0) => IsWeightedHour(result[d], d)

C10_Witness ==
    /\ Returned("energy_com") /\ T >= 2 /\ D = 2
    /\ ColHasNaN(0)
    /\ \E t \in Rows(shape) : ~IsNaN(data_in[t][0]) /\ data_in[t][0].num > 0
    /\ IsNaN(result[0])
    /\ ~ColHasNaN(1) /\ ~IsNaN(result[1])

====
